---- MODULE Spec2Model ----
(***************************************************************************)
(* SubvolumeProcessor (connectomics/volume/subvolume_processor.py): the    *)
(* effective overlap/context reconciliation and the border-aware cropping  *)
(* of a box and of its CZYX data array.                                    *)
(*                                                                         *)
(* Vectors are XYZ 3-tuples.  A data array is a view: its CZYX shape and   *)
(* the CZYX index in the caller's array at which the view starts.          *)
(***************************************************************************)
EXTENDS Integers

VARIABLES
  processor,      \* the processor class: its context() and crop_at_borders
  configured,     \* whether _subvol_size, _overlap and _context are set
  _subvol_size,   \* effective subvolume size
  _overlap,       \* effective overlap
  _context,       \* effective context, [front, back]
  pc,             \* "idle", or "returned": a call's result is with its caller
  call            \* the call that returned: arguments and result

vars == <<processor, configured, _subvol_size, _overlap, _context, pc, call>>

----------------------------------------------------------------------------
(* Bounds of the model. *)

MaxCtx == 1
MaxOverlap == 3
MaxSize == 3
MaxChannels == 2

\* The X, Y and Z axes.
Axes == 1..3

Uniform(k) == <<k, k, k>>

\* Contexts a processor class may declare: none or the same on every edge,
\* front only, and one that differs from axis to axis.
Contexts ==
  {[front |-> Uniform(k), back |-> Uniform(k)] : k \in 0..MaxCtx}
    \cup {[front |-> Uniform(MaxCtx), back |-> Uniform(0)],
          [front |-> <<MaxCtx, 0, 0>>, back |-> <<0, 0, MaxCtx>>]}

Processors == [context : Contexts, crop_at_borders : BOOLEAN]

SubvolSizes == {Uniform(MaxSize), <<MaxSize, MaxSize + 1, MaxSize + 2>>}

Flags == [Axes -> BOOLEAN]

\* Start and size of the boxes handed to the cropper.
Geometries ==
  {[start |-> Uniform(0), size |-> Uniform(k)] : k \in 1..MaxSize}
    \cup {[start |-> <<1, 2, 3>>,
           size |-> <<MaxSize, MaxSize + 1, MaxSize + 2>>]}

Boxes ==
  {[start |-> g.start, size |-> g.size,
    is_border_start |-> s, is_border_end |-> e] :
      g \in Geometries, s \in Flags, e \in Flags}

Channels == 1..MaxChannels

----------------------------------------------------------------------------
(* The processor's declarations. *)

\* Whether cropping happens at the borders of the input bounding box.
crop_at_borders == processor.crop_at_borders

\* The declared front/back context.
context == processor.context

\* Front and back context summed per axis.  (The SuggestedXyz tag overlap()
\* keeps plays no part in the comparison with the assigned overlap.)
overlap == [a \in Axes |-> context.front[a] + context.back[a]]

----------------------------------------------------------------------------
(* Overlap/context reconciliation. *)

\* Mutant: the remainder of an odd overlap is dropped from the back.
EffectiveContextHalfBack(ovl) ==
  IF \A a \in Axes : overlap[a] = ovl[a]
  THEN context
  ELSE [front |-> [a \in Axes |-> ovl[a] \div 2],
        back |-> [a \in Axes |-> ovl[a] \div 2]]

\* Mutant: the assigned overlap is always split anew.
EffectiveContextAlwaysSplit(ovl) ==
  [front |-> [a \in Axes |-> ovl[a] \div 2],
   back |-> [a \in Axes |-> ovl[a] - (ovl[a] \div 2)]]

\* The context set_effective_subvol_and_overlap installs for overlap ovl.
EffectiveContext(ovl) ==
  IF \A a \in Axes : overlap[a] = ovl[a]
  THEN context
  ELSE LET pre == [a \in Axes |-> ovl[a] \div 2]
           post == [a \in Axes |-> ovl[a] - pre[a]]
       IN [front |-> pre, back |-> post]

\* Overlaps a framework chooses by itself.
ChosenOverlaps ==
  {Uniform(k) : k \in 0..MaxOverlap} \cup {<<MaxOverlap, MaxOverlap - 1, 0>>}

\* What a framework assigns: the processor's own overlap with any subvolume
\* size, or an overlap of its choosing.
Assignments ==
  {<<s, overlap>> : s \in SubvolSizes}
    \cup {<<Uniform(MaxSize), o>> : o \in ChosenOverlaps}

----------------------------------------------------------------------------
(* Border-aware cropping. *)

BoolInt(b) == IF b THEN 1 ELSE 0

\* Mutant: the border amounts are kept and the interior ones zeroed.
_context_for_box_unnegated(box) ==
  IF ~crop_at_borders
  THEN [front |-> [a \in Axes |->
                     _context.front[a] * BoolInt(box.is_border_start[a])],
        back |-> [a \in Axes |->
                    _context.back[a] * BoolInt(box.is_border_end[a])]]
  ELSE [front |-> _context.front, back |-> _context.back]

\* Mutant: crop_at_borders is not consulted, every edge is cropped.
_context_for_box_unmasked(box) ==
  [front |-> _context.front, back |-> _context.back]

\* The front/back amounts cropped from box.  is_border_start and
\* is_border_end are per-axis booleans, ~ their elementwise negation, and
\* *= multiplies by it as 0 or 1.
_context_for_box(box) ==
  IF ~crop_at_borders
  THEN [front |-> [a \in Axes |->
                     _context.front[a] * BoolInt(~box.is_border_start[a])],
        back |-> [a \in Axes |->
                    _context.back[a] * BoolInt(~box.is_border_end[a])]]
  ELSE [front |-> _context.front, back |-> _context.back]

\* Mutant: front and back alias self._context, and *= writes through.
ContextAfterAliased(box) == _context_for_box(box)

\* self._context once _context_for_box(box) has run: np.array copies front
\* and back, so the in-place *= acts on the copies.
ContextAfter(box) == _context

\* BoundingBox.adjusted_by: start moved by start, end moved by end.
adjusted_by(box, start, end) ==
  LET new_start == [a \in Axes |-> box.start[a] + start[a]]
      new_end == [a \in Axes |-> box.start[a] + box.size[a] + end[a]]
  IN [start |-> new_start,
      size |-> [a \in Axes |-> new_end[a] - new_start[a]]]

crop_box(box) ==
  LET c == _context_for_box(box)
  IN adjusted_by(box, c.front, [a \in Axes |-> 0 - c.back[a]])

\* An index of a slice, as numpy places it in an axis of length n.
NpIndex(i, n) ==
  IF i < 0 THEN (IF i + n < 0 THEN 0 ELSE i + n)
  ELSE (IF i > n THEN n ELSE i)

\* The view data[start:stop] of an axis of length n: where it begins and
\* how long it is.
NpSlice(n, start, stop) ==
  LET lo == NpIndex(start, n)
      hi == NpIndex(stop, n)
  IN [lo |-> lo, len |-> IF hi > lo THEN hi - lo ELSE 0]

\* Mutant: the shape is not reversed, stops are taken in ZYX order.
SliceStopsNoReverse(data, back) ==
  <<data.shape[2] - back[1], data.shape[3] - back[2],
    data.shape[4] - back[3]>>

\* Mutant: the stops are written -back, which is 0 where back is 0.
SliceStopsNegBack(data, back) ==
  <<0 - back[1], 0 - back[2], 0 - back[3]>>

\* bx, by, bz: data.shape[:0:-1] - back.
SliceStops(data, back) ==
  <<data.shape[4] - back[1], data.shape[3] - back[2],
    data.shape[2] - back[3]>>

\* data[:, fz:bz, fy:by, fx:bx]
SliceCZYX(data, front, stops) ==
  LET z == NpSlice(data.shape[2], front[3], stops[3])
      y == NpSlice(data.shape[3], front[2], stops[2])
      x == NpSlice(data.shape[4], front[1], stops[1])
  IN [shape |-> <<data.shape[1], z.len, y.len, x.len>>,
      origin |-> <<data.origin[1], data.origin[2] + z.lo,
                   data.origin[3] + y.lo, data.origin[4] + x.lo>>]

\* Subvolume: an array paired with the box it covers.
Subvolume(data, bbox) == [data |-> data, bbox |-> bbox]

crop_box_and_data(box, data) ==
  LET cropped_box == crop_box(box)
      c == _context_for_box(box)
  IN Subvolume(SliceCZYX(data, c.front, SliceStops(data, c.back)),
               cropped_box)

----------------------------------------------------------------------------
(* The arrays callers pair with a box. *)

NewArray(c, xyz) ==
  [shape |-> <<c, xyz[3], xyz[2], xyz[1]>>, origin |-> <<0, 0, 0, 0>>]

\* The array that matches the box.
Matching(box, c) == NewArray(c, box.size)

\* An array already expanded by the caller's halo on every axis.
Expanded(box, c) ==
  NewArray(c, [a \in Axes |-> box.size[a] + 2 * MaxCtx])

\* An array one voxel short on X.
ShortX(box, c) ==
  NewArray(c, <<box.size[1] - 1, box.size[2], box.size[3]>>)

Arrays(box) ==
  {Matching(box, c) : c \in Channels}
    \cup {Expanded(box, 1), ShortX(box, MaxChannels)}

----------------------------------------------------------------------------
(* State machine. *)

NoVec == Uniform(0)
NoArray == [shape |-> <<0, 0, 0, 0>>, origin |-> <<0, 0, 0, 0>>]
NoBox == [start |-> NoVec, size |-> NoVec]
NoCall ==
  [op |-> "none", status |-> "none",
   box |-> [start |-> NoVec, size |-> NoVec,
            is_border_start |-> [a \in Axes |-> FALSE],
            is_border_end |-> [a \in Axes |-> FALSE]],
   data |-> NoArray, out_box |-> NoBox, out_data |-> NoArray]

\* A processor is constructed; the effective configuration is not yet set.
Init ==
  /\ processor \in Processors
  /\ configured = FALSE
  /\ _subvol_size = NoVec
  /\ _overlap = NoVec
  /\ _context = [front |-> NoVec, back |-> NoVec]
  /\ pc = "idle"
  /\ call = NoCall

set_effective_subvol_and_overlap(subvol_size, ovl) ==
  /\ pc = "idle"
  /\ _subvol_size' = subvol_size
  /\ _overlap' = ovl
  /\ _context' = EffectiveContext(ovl)
  /\ configured' = TRUE
  /\ UNCHANGED <<processor, pc, call>>

SetEffective ==
  \E a \in Assignments : set_effective_subvol_and_overlap(a[1], a[2])

\* crop_box(box) called and returned; before configuration self._context
\* does not exist and the call raises AttributeError.
CallCropBox ==
  \E box \in Boxes :
    /\ pc = "idle"
    /\ pc' = "returned"
    /\ IF configured
       THEN /\ call' = [op |-> "crop_box", status |-> "ok", box |-> box,
                        data |-> NoArray, out_box |-> crop_box(box),
                        out_data |-> NoArray]
            /\ _context' = ContextAfter(box)
       ELSE /\ call' = [op |-> "crop_box", status |-> "AttributeError",
                        box |-> box, data |-> NoArray, out_box |-> NoBox,
                        out_data |-> NoArray]
            /\ UNCHANGED _context
    /\ UNCHANGED <<processor, configured, _subvol_size, _overlap>>

\* crop_box_and_data(box, data) called and returned.
CallCropBoxAndData ==
  \E box \in Boxes :
    \E data \in Arrays(box) :
      /\ pc = "idle"
      /\ pc' = "returned"
      /\ IF configured
         THEN LET sv == crop_box_and_data(box, data)
              IN /\ call' = [op |-> "crop_box_and_data", status |-> "ok",
                             box |-> box, data |-> data,
                             out_box |-> sv.bbox, out_data |-> sv.data]
                 /\ _context' = ContextAfter(box)
         ELSE /\ call' = [op |-> "crop_box_and_data",
                          status |-> "AttributeError", box |-> box,
                          data |-> data, out_box |-> NoBox,
                          out_data |-> NoArray]
              /\ UNCHANGED _context
      /\ UNCHANGED <<processor, configured, _subvol_size, _overlap>>

\* The caller takes the result.
Collect ==
  /\ pc = "returned"
  /\ pc' = "idle"
  /\ call' = NoCall
  /\ UNCHANGED <<processor, configured, _subvol_size, _overlap, _context>>

Next == SetEffective \/ CallCropBox \/ CallCropBoxAndData \/ Collect

Spec == Init /\ [][Next]_vars

----------------------------------------------------------------------------
(* What a returned call shows. *)

\* A crop call has returned a result.
Cropped == pc = "returned" /\ call.status = "ok"

\* crop_box_and_data has returned a result.
CroppedData == Cropped /\ call.op = "crop_box_and_data"

\* The array of the call has the extent of its box, in ZYX order.
DataMatchesBox ==
  /\ call.data.shape[2] = call.box.size[3]
  /\ call.data.shape[3] = call.box.size[2]
  /\ call.data.shape[4] = call.box.size[1]

\* The amounts the call is to crop on axis a: the effective context, or 0
\* at a border of the volume when crop_at_borders is off.
FrontDue(a) ==
  IF ~crop_at_borders /\ call.box.is_border_start[a]
  THEN 0 ELSE _context.front[a]

BackDue(a) ==
  IF ~crop_at_borders /\ call.box.is_border_end[a]
  THEN 0 ELSE _context.back[a]

\* The amounts the returned box was cropped by on axis a.
FrontCropped(a) == call.out_box.start[a] - call.box.start[a]

BackCropped(a) ==
  (call.box.start[a] + call.box.size[a])
    - (call.out_box.start[a] + call.out_box.size[a])

ZeroContext(c) == c.front = Uniform(0) /\ c.back = Uniform(0)

\* The call returned its box and its array as they were passed.
ReturnedUnchanged ==
  /\ call.out_box.start = call.box.start
  /\ call.out_box.size = call.box.size
  /\ call.op = "crop_box_and_data" => call.out_data = call.data

----------------------------------------------------------------------------
(* C1 *)

\* C1: with a matching array and an effective front+back within the box on
\* every axis, crop_box_and_data returns the box crop_box returns and an
\* array whose ZYX shape is that box's size, with the channels it was given.
C1_ShapeInvariant ==
  (/\ CroppedData
   /\ DataMatchesBox
   /\ \A a \in Axes :
        _context.front[a] + _context.back[a] <= call.box.size[a])
  => /\ call.out_box = crop_box(call.box)
     /\ call.out_data.shape =
          <<call.data.shape[1], call.out_box.size[3], call.out_box.size[2],
            call.out_box.size[1]>>

\* A box of three different extents, cropped by 1 on every edge but the
\* X front, which is at the border.
C1_Witness ==
  /\ CroppedData
  /\ DataMatchesBox
  /\ ~crop_at_borders
  /\ _context = [front |-> Uniform(1), back |-> Uniform(1)]
  /\ call.box.size = <<MaxSize, MaxSize + 1, MaxSize + 2>>
  /\ call.box.is_border_start = <<TRUE, FALSE, FALSE>>
  /\ call.box.is_border_end = <<FALSE, FALSE, FALSE>>
  /\ call.data.shape[1] = MaxChannels
  /\ call.out_data.shape =
       <<MaxChannels, MaxSize, MaxSize - 1, MaxSize - 1>>

----------------------------------------------------------------------------
(* C2 *)

\* C2: with crop_at_borders off, the front crop is 0 on the axes where the
\* box starts at the border, the back crop is 0 where it ends at the
\* border, and every other edge is cropped by the effective amount.
C2_BorderSuppression ==
  (Cropped /\ ~crop_at_borders)
  => \A a \in Axes :
       /\ FrontCropped(a) =
            (IF call.box.is_border_start[a] THEN 0 ELSE _context.front[a])
       /\ BackCropped(a) =
            (IF call.box.is_border_end[a] THEN 0 ELSE _context.back[a])

\* Front context (1,1,1), the box at the border on X only.
C2_Witness ==
  /\ Cropped
  /\ call.op = "crop_box"
  /\ ~crop_at_borders
  /\ _context.front = Uniform(1)
  /\ call.box.is_border_start = <<TRUE, FALSE, FALSE>>
  /\ FrontCropped(1) = 0
  /\ FrontCropped(2) = 1
  /\ FrontCropped(3) = 1

----------------------------------------------------------------------------
(* C3 *)

\* C3: once the processor's own overlap has been assigned, the effective
\* context is the declared context, whatever its front/back split.
C3_OverlapIdentity ==
  (configured /\ \A a \in Axes : _overlap[a] = overlap[a])
  => _context = context

\* A front-only context, which a split anew would move to the back.
C3_Witness ==
  /\ configured
  /\ _overlap = overlap
  /\ _subvol_size = <<MaxSize, MaxSize + 1, MaxSize + 2>>
  /\ context.front = Uniform(MaxCtx)
  /\ context.back = Uniform(0)
  /\ _context = context
  /\ _context # EffectiveContextAlwaysSplit(_overlap)

----------------------------------------------------------------------------
(* C4 *)

\* C4: once an overlap other than the processor's own has been assigned,
\* on every axis front is the floor of half of it, back is the rest, and
\* the two add up to it.
C4_OverlapResplit ==
  (configured /\ \E a \in Axes : _overlap[a] # overlap[a])
  => \A a \in Axes :
       /\ _context.front[a] = _overlap[a] \div 2
       /\ _context.back[a] = _overlap[a] - _context.front[a]
       /\ _context.front[a] + _context.back[a] = _overlap[a]

\* An odd, an even and a zero overlap, assigned to a processor that
\* declares another one.
C4_Witness ==
  /\ configured
  /\ _overlap = <<MaxOverlap, MaxOverlap - 1, 0>>
  /\ \E a \in Axes : _overlap[a] # overlap[a]
  /\ _context.front[1] = MaxOverlap \div 2
  /\ _context.back[1] = MaxOverlap - (MaxOverlap \div 2)
  /\ _context.front[1] # _context.back[1]

----------------------------------------------------------------------------
(* C5 *)

----------------------------------------------------------------------------
(* C6 *)

\* C6, as stated: the box crop_box returns has size > 0 on every axis
\* whenever the box passed is at least front+back on every axis, front and
\* back being the border-adjusted amounts.
C6_NonEmptyWhenAtLeast ==
  (Cropped /\ \A a \in Axes : call.box.size[a] >= FrontDue(a) + BackDue(a))
  => \A a \in Axes : call.out_box.size[a] > 0

\* C6, amended: the box crop_box returns has size > 0 on every axis
\* whenever the box passed is larger than front+back on every axis, and
\* size >= 0 on every axis whenever it is at least front+back on every axis.
C6_NonEmptyWhenLarger ==
  Cropped
  => /\ (\A a \in Axes : call.box.size[a] > FrontDue(a) + BackDue(a))
          => \A a \in Axes : call.out_box.size[a] > 0
     /\ (\A a \in Axes : call.box.size[a] >= FrontDue(a) + BackDue(a))
          => \A a \in Axes : call.out_box.size[a] >= 0

\* A box as large as the effective front+back, larger than what is due
\* because it starts at the border: one voxel is left on every axis.
C6_Witness ==
  /\ Cropped
  /\ call.op = "crop_box"
  /\ ~crop_at_borders
  /\ _context = [front |-> Uniform(1), back |-> Uniform(1)]
  /\ call.box.size = Uniform(2)
  /\ call.box.is_border_start = <<TRUE, TRUE, TRUE>>
  /\ call.box.is_border_end = <<FALSE, FALSE, FALSE>>
  /\ call.out_box.size = Uniform(1)

----------------------------------------------------------------------------
(* C7 *)

\* C7: when front+back exceeds the box on some axis, crop_box and
\* crop_box_and_data raise an error and return nothing.
C7_DegenerateCropFails ==
  (/\ pc = "returned"
   /\ configured
   /\ \E a \in Axes : FrontDue(a) + BackDue(a) > call.box.size[a])
  => call.status # "ok"

----------------------------------------------------------------------------
(* C8 *)

\* C8: an assigned overlap below the processor's declared overlap on some
\* axis is rejected: it is never installed.
C8_UnderProvisionRejected ==
  configured => \A a \in Axes : _overlap[a] >= overlap[a]

----------------------------------------------------------------------------
(* C9 *)

\* C9: crop_box_and_data raises an error whenever the ZYX shape of the
\* array differs from the size of the box on some axis.
C9_MismatchFails ==
  (/\ pc = "returned"
   /\ configured
   /\ call.op = "crop_box_and_data"
   /\ ~DataMatchesBox)
  => call.status # "ok"

----------------------------------------------------------------------------
(* C10 *)

====
